---------------------------- MODULE Spec2Model ----------------------------
(***************************************************************************)
(* HealNav: the predict-priority edge function                             *)
(* (supabase/functions/predict-priority/index.ts).                         *)
(*                                                                         *)
(* A request is received, its JSON body is validated against               *)
(* patientSchema, predictPriority scores the validated report, a token is  *)
(* requested from the database (rpc generate_token_number), the patient    *)
(* row is inserted and the response is returned.  Several requests may be  *)
(* in flight at once: the handler is async and yields at each await.       *)
(*                                                                         *)
(* Text the code only copies or compares as a whole (enum values, error    *)
(* messages) is a TLA+ string.  Text the code takes apart or assembles     *)
(* (gender, existing_disease, the token, the action sentence, the          *)
(* notification message) is a sequence of one-character strings, so that   *)
(* trim, the gender regex, toUpperCase and the template are computed.      *)
(***************************************************************************)
EXTENDS Integers, Sequences, FiniteSets, TLC

VARIABLES
    pc,         \* pc[r]: where request r's handler invocation stands
    raw,        \* raw[r]: the HTTP request (method, body) as received
    data,       \* data[r]: patientData, the validated report (line 187)
    score,      \* score[r]: predictPriority's local accumulator (line 89)
    priority,   \* priority[r]: the handler's const priority (line 190)
    token,      \* token[r]: the handler's const tokenNumber (line 198)
    response,   \* response[r]: the Response the handler returned
    caught,     \* caught[r]: the value the catch block of line 234 received
    patients,   \* the patients table: the sequence of inserted rows
    tokenSeq,   \* the state of the external token generator
    granted,    \* the generator's record: granted[n] is the request its n-th token went to
    dashboardPatients,  \* DoctorDashboard's state patients (PatientIntake.tsx line 106)
    channel,    \* the realtime channel: the payloads not yet delivered, oldest first
    fetches,    \* fetches[f]: where the f-th call of fetchPatients stands
    updates,    \* the number of calls of updatePatientStatus so far
    authUsers,  \* the table auth.users: the ids of the accounts
    user_roles, \* the table public.user_roles: rows (user_id, role)
    attempt     \* the last statement a client sent to the patients table, and its outcome

\* The handler's variables other than the patients table.
handlerVars ==
    << pc, raw, data, score, priority, token, response, caught, tokenSeq, granted >>

dashboardVars ==
    << dashboardPatients, channel, fetches, updates >>

accessVars ==
    << authUsers, user_roles, attempt >>

vars ==
    << pc, raw, data, score, priority, token, response, caught, patients, tokenSeq, granted,
       dashboardPatients, channel, fetches, updates, authUsers, user_roles, attempt >>

---------------------------------------------------------------------------
(* Bounds of the model. *)

\* Number of handler invocations that may be in flight together.
MaxRequests ==
    2

Requests == 1 .. MaxRequests

---------------------------------------------------------------------------
(* JavaScript values. *)

\* string | null | undefined
JSNull == [kind |-> "null", str |-> << >>]
JSUndefined == [kind |-> "undefined", str |-> << >>]
JSStr(s) == [kind |-> "string", str |-> s]

\* Truthiness of a string | null | undefined: only a non-empty string is truthy.
Truthy(v) == v.kind = "string" /\ Len(v.str) > 0

\* The characters JavaScript's \s and String.prototype.trim treat as white space
\* (those that occur in the inputs of this model).
WhiteSpace == {" ", "\t", "\n"}

LowerCase ==
    << "a", "b", "c", "d", "e", "f", "g", "h", "i", "j", "k", "l", "m",
       "n", "o", "p", "q", "r", "s", "t", "u", "v", "w", "x", "y", "z" >>
UpperCase ==
    << "A", "B", "C", "D", "E", "F", "G", "H", "I", "J", "K", "L", "M",
       "N", "O", "P", "Q", "R", "S", "T", "U", "V", "W", "X", "Y", "Z" >>
Letters == {LowerCase[i] : i \in 1 .. Len(LowerCase)} \cup {UpperCase[i] : i \in 1 .. Len(UpperCase)}

\* String.prototype.trim: drop leading and trailing white space.
RECURSIVE trimStart(_)
trimStart(s) ==
    IF Len(s) > 0 /\ Head(s) \in WhiteSpace THEN trimStart(Tail(s)) ELSE s
RECURSIVE trimEnd(_)
trimEnd(s) ==
    IF Len(s) > 0 /\ s[Len(s)] \in WhiteSpace THEN trimEnd(SubSeq(s, 1, Len(s) - 1)) ELSE s
trim(s) == trimEnd(trimStart(s))

\* String.prototype.toUpperCase on the letters a-z.
toUpperCase(s) ==
    [i \in 1 .. Len(s) |->
        IF \E k \in 1 .. Len(LowerCase) : LowerCase[k] = s[i]
        THEN UpperCase[CHOOSE k \in 1 .. Len(LowerCase) : LowerCase[k] = s[i]]
        ELSE s[i]]

---------------------------------------------------------------------------
(* String literals of the source, as character sequences. *)

strNone ==
    << "N", "o", "n", "e" >>
strHeartDisease ==
    << "H", "e", "a", "r", "t", " ", "D", "i", "s", "e", "a", "s", "e" >>
strDiabetes ==
    << "D", "i", "a", "b", "e", "t", "e", "s" >>
strHypertension ==
    << "H", "y", "p", "e", "r", "t", "e", "n", "s", "i", "o", "n" >>
strAsthma ==
    << "A", "s", "t", "h", "m", "a" >>
strHeartDiseaseLower ==
    << "h", "e", "a", "r", "t", " ", "d", "i", "s", "e", "a", "s", "e" >>
strActionHigh ==
    << "P", "r", "o", "c", "e", "e", "d", " ", "t", "o", " ", "E", "m", "e", "r", "g", "e",
       "n", "c", "y", " ", "W", "a", "r", "d", " ", "i", "m", "m", "e", "d", "i", "a", "t",
       "e", "l", "y" >>
strActionMedium ==
    << "C", "o", "n", "s", "u", "l", "t", " ", "a", " ", "d", "o", "c", "t", "o", "r", " ",
       "t", "o", "d", "a", "y" >>
strActionLow ==
    << "O", "P", "D", " ", "v", "i", "s", "i", "t", " ", "c", "a", "n", " ", "b", "e", " ",
       "s", "c", "h", "e", "d", "u", "l", "e", "d", " ", "l", "a", "t", "e", "r" >>
strGreeting ==
    << "D", "e", "a", "r", " ", "P", "a", "t", "i", "e", "n", "t", ",", "\n", "\n", "Y",
       "o", "u", "r", " ", "c", "o", "n", "d", "i", "t", "i", "o", "n", " ", "h", "a", "s",
       " ", "b", "e", "e", "n", " ", "a", "s", "s", "e", "s", "s", "e", "d", " ", "a", "s",
       " " >>
strAfterPriority ==
    << " ", "p", "r", "i", "o", "r", "i", "t", "y", ".", "\n", "\n", "T", "o", "k", "e",
       "n", " ", "N", "u", "m", "b", "e", "r", ":", " " >>
strAfterToken ==
    << "\n", "\n" >>
strAfterAction ==
    << ".", "\n", "\n", "T", "h", "a", "n", "k", " ", "y", "o", "u", " ", "f", "o", "r",
       " ", "u", "s", "i", "n", "g", " ", "H", "e", "a", "l", "N", "a", "v", ".", "\n",
       "\n" >>
strSignature ==
    << " ", "H", "e", "a", "l", "N", "a", "v", " ", "-", " ", "S", "m", "a", "r", "t", " ",
       "C", "a", "r", "e", " ", "P", "a", "t", "i", "e", "n", "t", " ", "P", "r", "i", "o",
       "r", "i", "t", "y", " ", "S", "y", "s", "t", "e", "m" >>
\* The en dash that opens the signature line (one character, U+2013).
EnDash == "<U+2013>"

\* The characters of a priority value.
Chars(p) ==
    CASE p = "low" -> << "l", "o", "w" >>
      [] p = "medium" -> << "m", "e", "d", "i", "u", "m" >>
      [] p = "high" -> << "h", "i", "g", "h" >>

---------------------------------------------------------------------------
(* patientSchema: the server-side validation schema. *)

MinAge == 0
MaxAge == 150
MinGenderLen == 1
MaxGenderLen == 20
MinDuration == 0
MaxDuration == 365
MaxDiseaseLen == 100

PainLevels == {"mild", "moderate", "severe"}
SeverityLevels == {"low", "medium", "high", "critical"}
Priorities == {"low", "medium", "high"}

\* /^[a-zA-Z\s]+$/
genderFormatOk(g) ==
    Len(g) >= 1 /\ \A i \in 1 .. Len(g) : g[i] \in Letters \cup WhiteSpace

\* z.number().int().min(0).max(150); the numbers of this model are integers.
ageOk(age) == age >= MinAge /\ age <= MaxAge

genderOk(gender) ==
    /\ gender.kind = "string"
    /\ Len(gender.str) >= MinGenderLen
    /\ Len(gender.str) <= MaxGenderLen
    /\ genderFormatOk(gender.str)

durationOk(days) == days >= MinDuration /\ days <= MaxDuration

\* z.string().max(100).nullable(): null, or a string of at most 100 characters
\* (the length is that of the value as sent, before the transform trims it).
\* undefined (the key is missing) is rejected.
existingDiseaseOk(v) ==
    \/ v.kind = "null"
    \/ v.kind = "string" /\ Len(v.str) <= MaxDiseaseLen

\* Variant: the transform does not trim.
existingDiseaseTransform_noTrim(v) ==
    IF v.kind = "string" /\ Len(v.str) > 0 THEN JSStr(v.str) ELSE JSNull

\* .transform(val => val?.trim() || null)
existingDiseaseTransform(v) ==
    IF v.kind = "string" /\ Len(trim(v.str)) > 0 THEN JSStr(trim(v.str)) ELSE JSNull

\* patientSchema.safeParse(rawData).success
schemaAccepts(body) ==
    /\ ageOk(body.age)
    /\ genderOk(body.gender)
    /\ body.chest_pain \in BOOLEAN
    /\ body.breathlessness \in BOOLEAN
    /\ body.fever \in BOOLEAN
    /\ body.pain_level \in PainLevels
    /\ durationOk(body.symptom_duration_days)
    /\ body.severity_level \in SeverityLevels
    /\ existingDiseaseOk(body.existing_disease)

\* patientSchema.safeParse(rawData).data, for an accepted body.
schemaData(body) ==
    [ age |-> body.age,
      gender |-> body.gender.str,
      chest_pain |-> body.chest_pain,
      breathlessness |-> body.breathlessness,
      fever |-> body.fever,
      pain_level |-> body.pain_level,
      symptom_duration_days |-> body.symptom_duration_days,
      severity_level |-> body.severity_level,
      existing_disease |-> existingDiseaseTransform(body.existing_disease) ]

---------------------------------------------------------------------------
(* predictPriority: additive scoring, then bucketing. *)

\* Variant: the first band starts after 70 instead of at 70.
ageFactor_exclusive(age) ==
    IF age > 70 THEN 25
    ELSE IF age >= 50 THEN 15
    ELSE IF age >= 30 THEN 5
    ELSE 0

\* Variant: the three comparisons are separate ifs, so the bands stack.
ageFactor_stacked(age) ==
    (IF age >= 70 THEN 25 ELSE 0)
    + (IF age >= 50 THEN 15 ELSE 0)
    + (IF age >= 30 THEN 5 ELSE 0)

\* Age factor (lines 91-94).
ageFactor(age) ==
    IF age >= 70 THEN 25
    ELSE IF age >= 50 THEN 15
    ELSE IF age >= 30 THEN 5
    ELSE 0

\* Critical symptoms (lines 96-99).
symptomFactor(chest_pain, breathlessness, fever) ==
    (IF chest_pain THEN 30 ELSE 0)
    + (IF breathlessness THEN 25 ELSE 0)
    + (IF fever THEN 10 ELSE 0)

\* Variant: the points of severe and mild are exchanged.
painFactor_swapped(pain_level) ==
    IF pain_level = "severe" THEN 5
    ELSE IF pain_level = "moderate" THEN 15
    ELSE 25

\* Pain level (lines 101-104).
painFactor(pain_level) ==
    IF pain_level = "severe" THEN 25
    ELSE IF pain_level = "moderate" THEN 15
    ELSE 5

\* Variant: the last else is missing, so "low" adds nothing.
severityFactor_noElse(severity_level) ==
    IF severity_level = "critical" THEN 35
    ELSE IF severity_level = "high" THEN 25
    ELSE IF severity_level = "medium" THEN 15
    ELSE 0

\* Self-reported severity (lines 106-110).
severityFactor(severity_level) ==
    IF severity_level = "critical" THEN 35
    ELSE IF severity_level = "high" THEN 25
    ELSE IF severity_level = "medium" THEN 15
    ELSE 5

\* Variant: the first comparison also accepts the lower-case spelling.
existingDiseaseFactor_ignoreCase(existing_disease) ==
    IF Truthy(existing_disease) /\ existing_disease # JSStr(strNone)
    THEN IF existing_disease \in {JSStr(strHeartDisease), JSStr(strHeartDiseaseLower)} THEN 20
         ELSE IF existing_disease = JSStr(strDiabetes) THEN 15
         ELSE IF existing_disease = JSStr(strHypertension) THEN 15
         ELSE IF existing_disease = JSStr(strAsthma) THEN 10
         ELSE 5
    ELSE 0

\* Variant: the sentinel "None" is not excluded.
existingDiseaseFactor_noSentinel(existing_disease) ==
    IF Truthy(existing_disease)
    THEN IF existing_disease = JSStr(strHeartDisease) THEN 20
         ELSE IF existing_disease = JSStr(strDiabetes) THEN 15
         ELSE IF existing_disease = JSStr(strHypertension) THEN 15
         ELSE IF existing_disease = JSStr(strAsthma) THEN 10
         ELSE 5
    ELSE 0

\* Existing conditions (lines 112-119).
existingDiseaseFactor(existing_disease) ==
    IF Truthy(existing_disease) /\ existing_disease # JSStr(strNone)
    THEN IF existing_disease = JSStr(strHeartDisease) THEN 20
         ELSE IF existing_disease = JSStr(strDiabetes) THEN 15
         ELSE IF existing_disease = JSStr(strHypertension) THEN 15
         ELSE IF existing_disease = JSStr(strAsthma) THEN 10
         ELSE 5
    ELSE 0

\* Variant: the second band reaches to 5 days.
durationFactor_wide(days) ==
    IF days <= 1 THEN 10
    ELSE IF days <= 5 THEN 5
    ELSE 0

\* Symptom duration (lines 121-123).
durationFactor(days) ==
    IF days <= 1 THEN 10
    ELSE IF days <= 3 THEN 5
    ELSE 0

\* Variant: score is a module-level variable that is never reset, so a call
\* starts from the totals of the calls before it.
RECURSIVE SumOver(_, _)
SumOver(f, S) ==
    IF S = {} THEN 0
    ELSE LET x == CHOOSE y \in S : TRUE IN f[x] + SumOver(f, S \ {x})

accumulatedScore_shared(d) ==
    SumOver(score, Requests)
    + ageFactor(d.age)
    + symptomFactor(d.chest_pain, d.breathlessness, d.fever)
    + painFactor(d.pain_level)
    + severityFactor(d.severity_level)
    + existingDiseaseFactor(d.existing_disease)
    + durationFactor(d.symptom_duration_days)

\* The value of the local variable score when line 125 is reached.
accumulatedScore(d) ==
    ageFactor(d.age)
    + symptomFactor(d.chest_pain, d.breathlessness, d.fever)
    + painFactor(d.pain_level)
    + severityFactor(d.severity_level)
    + existingDiseaseFactor(d.existing_disease)
    + durationFactor(d.symptom_duration_days)

\* Variant: the last return is missing, so a total below 45 returns undefined.
priorityOfScore_noDefault(s) ==
    IF s >= 75 THEN "high"
    ELSE IF s >= 45 THEN "medium"
    ELSE "undefined"

\* Variant: the thresholds are compared with > instead of >=.
priorityOfScore_strict(s) ==
    IF s > 75 THEN "high"
    ELSE IF s > 45 THEN "medium"
    ELSE "low"

\* Determine priority based on score (lines 125-128).
priorityOfScore(s) ==
    IF s >= 75 THEN "high"
    ELSE IF s >= 45 THEN "medium"
    ELSE "low"

predictPriority(d) == priorityOfScore(accumulatedScore(d))

---------------------------------------------------------------------------
(* The message composer. *)

\* Variant: the sentences of high and medium are exchanged.
getActionMessage_swapped(p) ==
    CASE p = "high" -> strActionMedium
      [] p = "medium" -> strActionHigh
      [] p = "low" -> strActionLow

getActionMessage(p) ==
    CASE p = "high" -> strActionHigh
      [] p = "medium" -> strActionMedium
      [] p = "low" -> strActionLow

\* Variant: the priority is embedded as it is, not in upper case.
getNotificationMessage_noUpper(p, tokenNumber) ==
    LET priorityText == Chars(p)
        action == getActionMessage(p)
    IN  strGreeting \o priorityText \o strAfterPriority \o tokenNumber
        \o strAfterToken \o action \o strAfterAction \o << EnDash >> \o strSignature

getNotificationMessage(p, tokenNumber) ==
    LET priorityText == toUpperCase(Chars(p))
        action == getActionMessage(p)
    IN  strGreeting \o priorityText \o strAfterPriority \o tokenNumber
        \o strAfterToken \o action \o strAfterAction \o << EnDash >> \o strSignature

---------------------------------------------------------------------------
(* mapErrorToSafeResponse: a thrown value to a generic message and status. *)

\* A thrown value: a ZodError, an object with a code property (a database
\* error), or anything else.
ZodError == [kind |-> "zod", code |-> ""]
PgError(c) == [kind |-> "pg", code |-> c]
OtherError == [kind |-> "other", code |-> ""]
\* Nothing was thrown.
NoError == [kind |-> "none", code |-> ""]

\* Variant: the messages of the two named codes are exchanged.
mapErrorToSafeResponse_swapped(error) ==
    IF error.kind = "zod"
    THEN [message |-> "Invalid input data provided. Please check your submission.",
          status |-> 400]
    ELSE IF error.kind = "pg"
    THEN CASE error.code = "23505" ->
                [message |-> "Referenced record not found", status |-> 400]
           [] error.code = "23503" ->
                [message |-> "A record with this information already exists",
                 status |-> 409]
           [] OTHER ->
                [message |-> "Unable to save patient information. Please try again.",
                 status |-> 500]
    ELSE [message |-> "An error occurred while processing your request",
          status |-> 500]

mapErrorToSafeResponse(error) ==
    IF error.kind = "zod"
    THEN [message |-> "Invalid input data provided. Please check your submission.",
          status |-> 400]
    ELSE IF error.kind = "pg"
    THEN CASE error.code = "23505" ->
                [message |-> "A record with this information already exists",
                 status |-> 409]
           [] error.code = "23503" ->
                [message |-> "Referenced record not found", status |-> 400]
           [] OTHER ->
                [message |-> "Unable to save patient information. Please try again.",
                 status |-> 500]
    ELSE [message |-> "An error occurred while processing your request",
          status |-> 500]

---------------------------------------------------------------------------
(* The external collaborators: the token generator and the patients table. *)

DigitChar == << "0", "1", "2", "3", "4", "5", "6", "7", "8", "9" >>

\* rpc("generate_token_number"): the n-th call returns a display string that no
\* other call returns.
TokenOf(n) ==
    << "T", "-", "0", "0", DigitChar[((n \div 10) % 10) + 1], DigitChar[(n % 10) + 1] >>

\* Error codes the database may answer with: unique violation, foreign key
\* violation, and one the handler does not name.
PgCodes == {"23505", "23503", "XX000"}

\* Variant: the token_number column is left out of the insert.
patientRow_noToken(id, d, tokenNumber, p) ==
    [ id |-> id,
      age |-> d.age,
      gender |-> d.gender,
      chest_pain |-> d.chest_pain,
      breathlessness |-> d.breathlessness,
      fever |-> d.fever,
      pain_level |-> d.pain_level,
      symptom_duration_days |-> d.symptom_duration_days,
      self_reported_severity |-> d.severity_level,
      existing_disease |-> d.existing_disease,
      token_number |-> << >>,
      ai_priority |-> p,
      status |-> "waiting" ]

\* The row .insert({...}).select().single() stores and returns: the handler's
\* twelve columns and the id the table assigns.
patientRow(id, d, tokenNumber, p) ==
    [ id |-> id,
      age |-> d.age,
      gender |-> d.gender,
      chest_pain |-> d.chest_pain,
      breathlessness |-> d.breathlessness,
      fever |-> d.fever,
      pain_level |-> d.pain_level,
      symptom_duration_days |-> d.symptom_duration_days,
      self_reported_severity |-> d.severity_level,
      existing_disease |-> d.existing_disease,
      token_number |-> tokenNumber,
      ai_priority |-> p,
      status |-> "waiting" ]

---------------------------------------------------------------------------
(* Responses. *)

NoResponse == [kind |-> "none", status |-> 0]

\* new Response(null, { headers: corsHeaders }): status defaults to 200.
preflightResponse == [kind |-> "preflight", status |-> 200]

\* The 400 response of a failed validation (lines 176-184).
validationResponse ==
    [ kind |-> "error", status |-> 400,
      error |-> "Invalid input data. Please check your submission and try again." ]

\* Variant: the catch block answers with the error's own code.
catchResponse_leak(error) ==
    LET errorResponse == mapErrorToSafeResponse(error)
    IN  [kind |-> "error", status |-> errorResponse.status, error |-> error.code]

\* The catch block (lines 234-243).
catchResponse(error) ==
    LET errorResponse == mapErrorToSafeResponse(error)
    IN  [kind |-> "error", status |-> errorResponse.status, error |-> errorResponse.message]

\* Variant: the action is not taken from the priority of this response.
successResponse_fixedAction(p, tokenNumber, patient) ==
    [ kind |-> "ok", status |-> 200,
      priority |-> p,
      action |-> getActionMessage("medium"),
      message |-> getNotificationMessage(p, tokenNumber),
      token_number |-> tokenNumber,
      patient_id |-> patient.id ]

\* The success response (lines 222-233).
successResponse(p, tokenNumber, patient) ==
    [ kind |-> "ok", status |-> 200,
      priority |-> p,
      action |-> getActionMessage(p),
      message |-> getNotificationMessage(p, tokenNumber),
      token_number |-> tokenNumber,
      patient_id |-> patient.id ]

---------------------------------------------------------------------------
(* Inputs. *)

strFlu ==
    << "F", "l", "u" >>
strAsthmaPadded ==
    << " ", "A", "s", "t", "h", "m", "a", " " >>
strBlank ==
    << " ", " " >>
strNonePadded ==
    << "\t", "N", "o", "n", "e", " ", "\n" >>
strMale ==
    << "M", "a", "l", "e" >>
strFemale ==
    << "F", "e", "m", "a", "l", "e" >>
strGenderDigit ==
    << "M", "1" >>

\* A value just past the schema's limit for existing_disease.
strTooLong == [i \in 1 .. MaxDiseaseLen + 1 |-> "x"]

Body(a, g, cp, br, fv, pl, dur, sv, ed) ==
    [ age |-> a, gender |-> g, chest_pain |-> cp, breathlessness |-> br, fever |-> fv,
      pain_level |-> pl, symptom_duration_days |-> dur, severity_level |-> sv,
      existing_disease |-> ed ]

Post(body) == [method |-> "POST", wellFormed |-> TRUE, body |-> body]

\* The scenarios of the specification's section 8.
Scenario1 ==
    Body(75, JSStr(strMale), TRUE, TRUE, FALSE, "severe", 1, "critical", JSStr(strHeartDisease))
Scenario2 ==
    Body(25, JSStr(strFemale), FALSE, FALSE, FALSE, "mild", 10, "low", JSNull)
Scenario3 ==
    Body(55, JSStr(strFemale), FALSE, TRUE, TRUE, "moderate", 5, "medium", JSStr(strDiabetes))
Scenario4 ==
    Body(55, JSStr(strFemale), FALSE, TRUE, TRUE, "moderate", 5, "medium", JSNull)

\* The ends of every age band and of every duration band.
GridAges == {0, 29, 30, 49, 50, 69, 70, 150}
GridDurations == {0, 1, 2, 3, 4, 365}
GridGenders == {JSStr(strMale), JSStr(strFemale)}
GridDiseases ==
    { JSNull, JSStr(<< >>), JSStr(strBlank), JSStr(strNone), JSStr(strHeartDisease),
      JSStr(strHeartDiseaseLower), JSStr(strDiabetes), JSStr(strHypertension),
      JSStr(strAsthma), JSStr(strAsthmaPadded), JSStr(strFlu), JSStr(strNonePadded) }

GridBodies ==
    { Body(a, g, cp, br, fv, pl, dur, sv, ed) :
        a \in GridAges, g \in GridGenders, cp \in BOOLEAN, br \in BOOLEAN, fv \in BOOLEAN,
        pl \in PainLevels, dur \in GridDurations, sv \in SeverityLevels, ed \in GridDiseases }

\* Bodies the schema rejects, each wrong in one field.
InvalidBodies ==
    { [Scenario2 EXCEPT !.age = -1],
      [Scenario2 EXCEPT !.age = 151],
      [Scenario2 EXCEPT !.gender = JSStr(<< >>)],
      [Scenario2 EXCEPT !.gender = JSStr(strGenderDigit)],
      [Scenario2 EXCEPT !.pain_level = "extreme"],
      [Scenario2 EXCEPT !.symptom_duration_days = -1],
      [Scenario2 EXCEPT !.symptom_duration_days = 366],
      [Scenario2 EXCEPT !.severity_level = "none"],
      [Scenario2 EXCEPT !.existing_disease = JSStr(strTooLong)],
      [Scenario2 EXCEPT !.existing_disease = JSUndefined] }

\* The requests the scorer is exercised on.
ScorerInputs ==
    {Post(b) : b \in GridBodies \cup {Scenario1, Scenario2, Scenario3, Scenario4} \cup InvalidBodies}

\* The requests the whole handler is exercised on, several at a time.
HandlerInputs ==
    { Post(Scenario1), Post(Scenario2), Post(Scenario3),
      Post([Scenario2 EXCEPT !.existing_disease = JSStr(strAsthmaPadded)]),
      Post([Scenario2 EXCEPT !.age = 151]),
      [method |-> "POST", wellFormed |-> FALSE, body |-> Scenario2],
      [method |-> "OPTIONS", wellFormed |-> FALSE, body |-> Scenario2] }

NoRequest == [method |-> "", wellFormed |-> FALSE, body |-> Scenario2]
NoData == schemaData(Scenario2)

---------------------------------------------------------------------------
(* The handler, one action per stretch between awaits. *)

\* A request arrives and serve() invokes the handler on it.
Receive(r) ==
    /\ pc[r] = "idle"
    /\ \E req \in HandlerInputs : raw' = [raw EXCEPT ![r] = req]
    /\ pc' = [pc EXCEPT ![r] = "received"]
    /\ UNCHANGED << data, score, priority, token, response, caught, patients, tokenSeq, granted,
                    dashboardVars, accessVars >>

\* Lines 161-163: the CORS preflight.
Preflight(r) ==
    /\ pc[r] = "received"
    /\ raw[r].method = "OPTIONS"
    /\ response' = [response EXCEPT ![r] = preflightResponse]
    /\ pc' = [pc EXCEPT ![r] = "done"]
    /\ UNCHANGED << raw, data, score, priority, token, caught, patients, tokenSeq, granted,
                    dashboardVars, accessVars >>

\* Line 171: await req.json() throws on a body that is not JSON; the catch
\* block answers.
ParseFailure(r) ==
    /\ pc[r] = "received"
    /\ raw[r].method # "OPTIONS"
    /\ ~raw[r].wellFormed
    /\ caught' = [caught EXCEPT ![r] = OtherError]
    /\ response' = [response EXCEPT ![r] = catchResponse(OtherError)]
    /\ pc' = [pc EXCEPT ![r] = "done"]
    /\ UNCHANGED << raw, data, score, priority, token, patients, tokenSeq, granted,
                    dashboardVars, accessVars >>

\* Variant: the return of line 176 is missing, so the handler goes on with the
\* rejected body.
Validate_noReturn(r) ==
    /\ pc[r] = "received"
    /\ raw[r].method # "OPTIONS"
    /\ raw[r].wellFormed
    /\ data' = [data EXCEPT ![r] = schemaData(raw[r].body)]
    /\ pc' = [pc EXCEPT ![r] = "validated"]
    /\ response' =
         [response EXCEPT ![r] =
            IF schemaAccepts(raw[r].body) THEN response[r] ELSE validationResponse]
    /\ UNCHANGED << raw, score, priority, token, caught, patients, tokenSeq, granted,
                    dashboardVars, accessVars >>

\* Lines 171-187: the body is parsed and validated; a rejected body is answered
\* with status 400.
Validate(r) ==
    /\ pc[r] = "received"
    /\ raw[r].method # "OPTIONS"
    /\ raw[r].wellFormed
    /\ IF schemaAccepts(raw[r].body)
       THEN /\ data' = [data EXCEPT ![r] = schemaData(raw[r].body)]
            /\ pc' = [pc EXCEPT ![r] = "validated"]
            /\ UNCHANGED response
       ELSE /\ response' = [response EXCEPT ![r] = validationResponse]
            /\ pc' = [pc EXCEPT ![r] = "done"]
            /\ UNCHANGED data
    /\ UNCHANGED << raw, score, priority, token, caught, patients, tokenSeq, granted,
                    dashboardVars, accessVars >>

\* Variant: score and priority are module-level variables, shared by all the
\* invocations in flight.
Score_global(r) ==
    /\ pc[r] = "validated"
    /\ score' = [q \in Requests |-> accumulatedScore(data[r])]
    /\ priority' = [q \in Requests |-> predictPriority(data[r])]
    /\ pc' = [pc EXCEPT ![r] = "scored"]
    /\ UNCHANGED << raw, data, token, response, caught, patients, tokenSeq, granted,
                    dashboardVars, accessVars >>

\* Line 190: predictPriority(patientData); the rpc of line 193 is then awaited.
Score(r) ==
    /\ pc[r] = "validated"
    /\ score' = [score EXCEPT ![r] = accumulatedScore(data[r])]
    /\ priority' = [priority EXCEPT ![r] = predictPriority(data[r])]
    /\ pc' = [pc EXCEPT ![r] = "scored"]
    /\ UNCHANGED << raw, data, token, response, caught, patients, tokenSeq, granted,
                    dashboardVars, accessVars >>

\* Variant: the handler keeps the first token it obtained in a module-level
\* variable and uses it for the later requests too.
TokenGranted_cached(r) ==
    /\ pc[r] = "scored"
    /\ IF tokenSeq = 0
       THEN /\ tokenSeq' = tokenSeq + 1
            /\ granted' = Append(granted, r)
       ELSE UNCHANGED << tokenSeq, granted >>
    /\ token' = [token EXCEPT ![r] = TokenOf(1)]
    /\ pc' = [pc EXCEPT ![r] = "inserting"]
    /\ UNCHANGED << raw, data, score, priority, response, caught, patients,
                    dashboardVars, accessVars >>

\* Lines 193-198: the generator answers with a fresh token; the insert of line
\* 201 is then awaited.
TokenGranted(r) ==
    /\ pc[r] = "scored"
    /\ tokenSeq' = tokenSeq + 1
    /\ granted' = Append(granted, r)
    /\ token' = [token EXCEPT ![r] = TokenOf(tokenSeq + 1)]
    /\ pc' = [pc EXCEPT ![r] = "inserting"]
    /\ UNCHANGED << raw, data, score, priority, response, caught, patients,
                    dashboardVars, accessVars >>

\* Line 196: the generator answers with an error, which is thrown.
TokenFailed(r) ==
    /\ pc[r] = "scored"
    /\ \E c \in PgCodes :
         /\ caught' = [caught EXCEPT ![r] = PgError(c)]
         /\ response' = [response EXCEPT ![r] = catchResponse(PgError(c))]
    /\ pc' = [pc EXCEPT ![r] = "done"]
    /\ UNCHANGED << raw, data, score, priority, token, patients, tokenSeq, granted,
                    dashboardVars, accessVars >>

\* Variant: the error of the insert is not checked (line 220 is missing), so a
\* failed insert is answered like a stored one.
InsertFailed_unchecked(r) ==
    /\ pc[r] = "inserting"
    /\ LET patient == patientRow(Len(patients) + 1, data[r], token[r], priority[r])
       IN  response' = [response EXCEPT ![r] = successResponse(priority[r], token[r], patient)]
    /\ pc' = [pc EXCEPT ![r] = "done"]
    /\ UNCHANGED << raw, data, score, priority, token, caught, patients, tokenSeq, granted,
                    dashboardVars, accessVars >>

\* Lines 201-233: the row is stored and the success response returned.
InsertDone(r) ==
    /\ pc[r] = "inserting"
    /\ LET patient == patientRow(Len(patients) + 1, data[r], token[r], priority[r])
       IN  /\ patients' = Append(patients, patient)
           /\ response' = [response EXCEPT ![r] = successResponse(priority[r], token[r], patient)]
    /\ pc' = [pc EXCEPT ![r] = "done"]
    /\ UNCHANGED << raw, data, score, priority, token, caught, tokenSeq, granted,
                    dashboardVars, accessVars >>

\* Line 220: the insert answers with an error, which is thrown.
InsertFailed(r) ==
    /\ pc[r] = "inserting"
    /\ \E c \in PgCodes :
         /\ caught' = [caught EXCEPT ![r] = PgError(c)]
         /\ response' = [response EXCEPT ![r] = catchResponse(PgError(c))]
    /\ pc' = [pc EXCEPT ![r] = "done"]
    /\ UNCHANGED << raw, data, score, priority, token, patients, tokenSeq, granted,
                    dashboardVars, accessVars >>

---------------------------------------------------------------------------
(* The doctor's dashboard (src/src/pages/PatientIntake.tsx, DoctorDashboard). *)

\* Rows the patients table holds at most.
MaxPatients ==
    2

\* Calls of fetchPatients: the initial load and the clicks on Refresh.
MaxFetches ==
    2

\* Payloads the realtime channel holds at most.
MaxPending ==
    2

\* Calls of updatePatientStatus.
MaxUpdates ==
    1

PatientStatuses == {"waiting", "in_progress", "completed"}

\* The ai_priority of a row stored without one (the column is nullable).
NullPriority == "null"

\* created_at as the table keeps it, in microseconds: two instants within one
\* millisecond, and one in a later millisecond.
Stamps == {1000, 1001, 2000}

\* The reports behind the stored rows: one of each tier.
DashboardReports ==
    { Scenario1, Scenario2, [Scenario2 EXCEPT !.age = 55, !.pain_level = "severe"] }

\* A row of the patients table as a select or a realtime payload shows it: the
\* columns the handler wrote, and the created_at the table gave it.
tableRow(id, body, created_at) ==
    patientRow(id, schemaData(body), TokenOf(id), predictPriority(schemaData(body)))
        @@ [created_at |-> created_at]

priorityOrder == [high |-> 0, medium |-> 1, low |-> 2]

\* new Date(created_at).getTime(): a Date counts whole milliseconds.
getTime(created_at) == created_at \div 1000

\* The comparator of lines 134-138 and 173-177.
comparePatients(a, b) ==
    LET priorityDiff ==
            priorityOrder[IF a.ai_priority = NullPriority THEN "low" ELSE a.ai_priority]
            - priorityOrder[IF b.ai_priority = NullPriority THEN "low" ELSE b.ai_priority]
    IN  IF priorityDiff # 0 THEN priorityDiff
        ELSE getTime(b.created_at) - getTime(a.created_at)

\* Array.prototype.sort with that comparator: a stable sort, so rows that
\* compare equal keep the order they had.
RECURSIVE sortPatients(_)
sortPatients(s) ==
    IF s = << >> THEN << >>
    ELSE LET done == sortPatients(SubSeq(s, 1, Len(s) - 1))
             x == s[Len(s)]
             before == Cardinality({i \in 1 .. Len(done) : comparePatients(done[i], x) <= 0})
         IN  SubSeq(done, 1, before) \o << x >> \o SubSeq(done, before + 1, Len(done))

\* .select("*").order("created_at", { ascending: false }): the rows of the
\* table, latest first; rows of one created_at come in any order.
selectOrdered(table) ==
    LET n == Len(table)
        perms == {f \in [1 .. n -> 1 .. n] : \A i, j \in 1 .. n : f[i] = f[j] => i = j}
    IN  { [i \in 1 .. n |-> table[f[i]]] :
            f \in {g \in perms : \A i, j \in 1 .. n :
                                   i < j => table[g[i]].created_at >= table[g[j]].created_at} }

Fetches == 1 .. MaxFetches
NoFetch == [stage |-> "idle", error |-> FALSE, data |-> << >>]

\* The edge function has handled a request to its end (index.ts lines 201-220):
\* the row is in the table, and the table's change goes out on the channel.
PatientStored ==
    /\ Len(patients) < MaxPatients
    /\ Len(channel) < MaxPending
    /\ \E body \in DashboardReports, created_at \in Stamps :
         LET row == tableRow(Len(patients) + 1, body, created_at)
         IN  /\ patients' = Append(patients, row)
             /\ channel' = Append(channel, [eventType |-> "INSERT", new |-> row])
    /\ UNCHANGED << handlerVars, dashboardPatients, fetches, updates, accessVars >>

\* Lines 130-139: the channel delivers an INSERT payload.
RealtimeInsert ==
    /\ channel # << >>
    /\ Head(channel).eventType = "INSERT"
    /\ dashboardPatients' = sortPatients(Append(dashboardPatients, Head(channel).new))
    /\ channel' = Tail(channel)
    /\ UNCHANGED << handlerVars, patients, fetches, updates, accessVars >>

\* Lines 148-151: the channel delivers an UPDATE payload.
RealtimeUpdate ==
    /\ channel # << >>
    /\ Head(channel).eventType = "UPDATE"
    /\ dashboardPatients' =
         [i \in 1 .. Len(dashboardPatients) |->
            IF dashboardPatients[i].id = Head(channel).new.id
            THEN Head(channel).new
            ELSE dashboardPatients[i]]
    /\ channel' = Tail(channel)
    /\ UNCHANGED << handlerVars, patients, fetches, updates, accessVars >>

\* Lines 162-167: fetchPatients is called (Refresh) and sends its query.
fetchPatients(f) ==
    /\ fetches[f].stage = "idle"
    /\ \A g \in Fetches : g < f => fetches[g].stage # "idle"
    /\ fetches' = [fetches EXCEPT ![f].stage = "sent"]
    /\ UNCHANGED << handlerVars, patients, dashboardPatients, channel, updates, accessVars >>

\* The database runs the query of fetch f on the table as it is now.
QueryAnswered(f) ==
    /\ fetches[f].stage = "sent"
    /\ \E rows \in selectOrdered(patients) :
         fetches' = [fetches EXCEPT ![f] = [stage |-> "answered", error |-> FALSE, data |-> rows]]
    /\ UNCHANGED << handlerVars, patients, dashboardPatients, channel, updates, accessVars >>

\* The query of fetch f fails.
QueryFailed(f) ==
    /\ fetches[f].stage = "sent"
    /\ fetches' = [fetches EXCEPT ![f] = [stage |-> "answered", error |-> TRUE, data |-> << >>]]
    /\ UNCHANGED << handlerVars, patients, dashboardPatients, channel, updates, accessVars >>

\* Lines 169-180: the await of fetch f returns; an error is shown as a toast, an
\* answer is sorted and replaces the list.
FetchCompleted(f) ==
    /\ fetches[f].stage = "answered"
    /\ IF fetches[f].error
       THEN UNCHANGED dashboardPatients
       ELSE dashboardPatients' = sortPatients(fetches[f].data)
    /\ fetches' = [fetches EXCEPT ![f].stage = "done"]
    /\ UNCHANGED << handlerVars, patients, channel, updates, accessVars >>

\* Lines 183-187: the status select of the i-th listed patient is set to another
\* status; the table's row changes and the change goes out on the channel.
updatePatientStatus(i, status) ==
    /\ i \in 1 .. Len(dashboardPatients)
    /\ status # dashboardPatients[i].status
    /\ updates < MaxUpdates
    /\ Len(channel) < MaxPending
    /\ LET patientId == dashboardPatients[i].id
       IN  /\ patients' = [patients EXCEPT ![patientId].status = status]
           /\ channel' = Append(channel, [eventType |-> "UPDATE", new |-> patients'[patientId]])
    /\ updates' = updates + 1
    /\ UNCHANGED << handlerVars, dashboardPatients, fetches, accessVars >>

---------------------------------------------------------------------------
(* Row level security of the patients table (src/unnamed/part_002). *)

app_role == {"admin", "medical_staff", "user"}

\* The accounts: one that exists when the trigger of line 81 is created, one
\* that signs up afterwards.
Users == {"u1", "u2"}
FirstUsers == {"u1"}

\* auth.uid() of a request that carries no session.
NoUid == "none"

\* The roles a request reaches the database with: the two a client can have,
\* and the one the edge function's key gives.
ClientRoles == {"anon", "authenticated"}
ServiceRole == "service_role"

\* Variant: the function looks for any row of the user, whatever its role.
has_role_anyRole(_user_id, _role) ==
    \E row \in user_roles : row.user_id = _user_id

\* public.has_role (lines 24-37).
has_role(_user_id, _role) ==
    \E row \in user_roles : row.user_id = _user_id /\ row.role = _role

\* The policies on public.patients once the statements of lines 40-61 have run:
\* the three old ones dropped, two created; none is created for INSERT.
patientsPolicies ==
    { [name |-> "Only medical staff can view patients", command |-> "SELECT",
       to |-> {"authenticated"}],
      [name |-> "Only medical staff can update patients", command |-> "UPDATE",
       to |-> {"authenticated"}] }

\* The USING expression of a policy (lines 51 and 61), for the request's auth.uid().
policyUsing(policy, uid) ==
    CASE policy.name = "Only medical staff can view patients" ->
            has_role(uid, "medical_staff") \/ has_role(uid, "admin")
      [] policy.name = "Only medical staff can update patients" ->
            has_role(uid, "medical_staff") \/ has_role(uid, "admin")

\* Row level security on public.patients: the service role bypasses it; for any
\* other role a command passes only if a policy for that command, granted to
\* that role, has a USING expression that holds.
permits(dbRole, uid, command) ==
    \/ dbRole = ServiceRole
    \/ \E policy \in patientsPolicies :
         /\ policy.command = command
         /\ dbRole \in policy.to
         /\ policyUsing(policy, uid)

\* The sessions a client can send a statement with.
Sessions ==
    {[dbRole |-> "anon", uid |-> NoUid]}
        \cup {[dbRole |-> "authenticated", uid |-> u] : u \in authUsers}

RolesOf(uid) == {row.role : row \in {x \in user_roles : x.user_id = uid}}

NoAttempt ==
    [command |-> "none", dbRole |-> "none", uid |-> NoUid, roles |-> {}, allowed |-> FALSE]

Attempt(command, dbRole, uid, allowed) ==
    [command |-> command, dbRole |-> dbRole, uid |-> uid, roles |-> RolesOf(uid),
     allowed |-> allowed]

\* A new account is created; the trigger of lines 81-84 runs
\* handle_new_medical_staff (lines 65-78) for it.
SignUp(u) ==
    /\ u \notin authUsers
    /\ authUsers' = authUsers \cup {u}
    /\ user_roles' = user_roles \cup {[user_id |-> u, role |-> "medical_staff"]}
    /\ UNCHANGED << handlerVars, patients, dashboardVars, attempt >>

\* An account is deleted; its rows of user_roles go with it (line 7).
DeleteUser(u) ==
    /\ u \in authUsers
    /\ authUsers' = authUsers \ {u}
    /\ user_roles' = {row \in user_roles : row.user_id # u}
    /\ UNCHANGED << handlerVars, patients, dashboardVars, attempt >>

\* A client selects from patients (as fetchPatients does): it is shown the
\* rows the SELECT policies let it see.
ClientSelect(session) ==
    /\ attempt' = Attempt("SELECT", session.dbRole, session.uid,
                          permits(session.dbRole, session.uid, "SELECT"))
    /\ UNCHANGED << handlerVars, patients, dashboardVars, authUsers, user_roles >>

\* A client updates the status of a row (as updatePatientStatus does): the row
\* changes only if the UPDATE policies let the client reach it.
ClientUpdate(session, id, status) ==
    /\ id \in 1 .. Len(patients)
    /\ LET allowed == permits(session.dbRole, session.uid, "UPDATE")
       IN  /\ attempt' = Attempt("UPDATE", session.dbRole, session.uid, allowed)
           /\ patients' = IF allowed THEN [patients EXCEPT ![id].status = status] ELSE patients
    /\ UNCHANGED << handlerVars, dashboardVars, authUsers, user_roles >>

\* A client inserts into patients directly, past the edge function.
ClientInsert(session, body) ==
    /\ Len(patients) < MaxPatients
    /\ LET allowed == permits(session.dbRole, session.uid, "INSERT")
           row == tableRow(Len(patients) + 1, body, 1000)
       IN  /\ attempt' = Attempt("INSERT", session.dbRole, session.uid, allowed)
           /\ patients' = IF allowed THEN Append(patients, row) ELSE patients
    /\ UNCHANGED << handlerVars, dashboardVars, authUsers, user_roles >>

\* The edge function inserts with the service role key (index.ts lines 201-220).
EdgeInsert(body) ==
    /\ Len(patients) < MaxPatients
    /\ permits(ServiceRole, NoUid, "INSERT")
    /\ attempt' = Attempt("INSERT", ServiceRole, NoUid, TRUE)
    /\ patients' = Append(patients, tableRow(Len(patients) + 1, body, 1000))
    /\ UNCHANGED << handlerVars, dashboardVars, authUsers, user_roles >>

---------------------------------------------------------------------------
(* Specifications. *)

InitLocals ==
    /\ data = [r \in Requests |-> NoData]
    /\ score = [r \in Requests |-> 0]
    /\ priority = [r \in Requests |-> "unset"]
    /\ token = [r \in Requests |-> << >>]
    /\ response = [r \in Requests |-> NoResponse]
    /\ caught = [r \in Requests |-> NoError]
    /\ patients = << >>
    /\ tokenSeq = 0
    /\ granted = << >>

\* The dashboard is not open.
InitDashboardClosed ==
    /\ dashboardPatients = << >>
    /\ channel = << >>
    /\ fetches = [f \in Fetches |-> NoFetch]
    /\ updates = 0

\* No account exists and no client has sent a statement.
InitNoAccounts ==
    /\ authUsers = {}
    /\ user_roles = {}
    /\ attempt = NoAttempt

\* The service: no request has arrived yet.
Init ==
    /\ pc = [r \in Requests |-> "idle"]
    /\ raw = [r \in Requests |-> NoRequest]
    /\ InitLocals
    /\ InitDashboardClosed
    /\ InitNoAccounts

Next ==
    \E r \in Requests :
        \/ Receive(r)
        \/ Preflight(r)
        \/ ParseFailure(r)
        \/ Validate(r)
        \/ Score(r)
        \/ TokenGranted(r)
        \/ TokenFailed(r)
        \/ InsertDone(r)
        \/ InsertFailed(r)

Spec == Init /\ [][Next]_vars

\* The scorer alone: one request has arrived, with any report of ScorerInputs;
\* it is validated and scored.
InitScorer ==
    /\ \E req \in ScorerInputs :
         raw = [r \in Requests |-> IF r = 1 THEN req ELSE NoRequest]
    /\ pc = [r \in Requests |-> IF r = 1 THEN "received" ELSE "idle"]
    /\ InitLocals
    /\ InitDashboardClosed
    /\ InitNoAccounts

NextScorer ==
    \E r \in Requests :
        \/ Validate(r)
        \/ Score(r)

ScorerSpec == InitScorer /\ [][NextScorer]_vars

\* The dashboard: it has been mounted by a signed-in member of the staff, its
\* channel is subscribed and its first fetchPatients has sent its query
\* (lines 112-155). The table is empty, or holds one row that was stored
\* without a priority.
InitDashboard ==
    /\ pc = [r \in Requests |-> "idle"]
    /\ raw = [r \in Requests |-> NoRequest]
    /\ data = [r \in Requests |-> NoData]
    /\ score = [r \in Requests |-> 0]
    /\ priority = [r \in Requests |-> "unset"]
    /\ token = [r \in Requests |-> << >>]
    /\ response = [r \in Requests |-> NoResponse]
    /\ caught = [r \in Requests |-> NoError]
    /\ tokenSeq = 0
    /\ granted = << >>
    /\ InitNoAccounts
    /\ patients \in {<< >>, << [tableRow(1, Scenario2, 1000) EXCEPT !.ai_priority = NullPriority] >>}
    /\ dashboardPatients = << >>
    /\ channel = << >>
    /\ fetches = [f \in Fetches |-> IF f = 1 THEN [NoFetch EXCEPT !.stage = "sent"] ELSE NoFetch]
    /\ updates = 0

NextDashboard ==
    \/ PatientStored
    \/ RealtimeInsert
    \/ RealtimeUpdate
    \/ \E f \in Fetches : fetchPatients(f)
    \/ \E f \in Fetches : QueryAnswered(f)
    \/ \E f \in Fetches : QueryFailed(f)
    \/ \E f \in Fetches : FetchCompleted(f)
    \/ \E i \in 1 .. MaxPatients, status \in PatientStatuses : updatePatientStatus(i, status)

DashboardSpec == InitDashboard /\ [][NextDashboard]_vars

\* The database after the statements of part_002: the account that existed
\* before has the roles an administrator gave it, if any.
InitAccess ==
    /\ pc = [r \in Requests |-> "idle"]
    /\ raw = [r \in Requests |-> NoRequest]
    /\ InitLocals
    /\ InitDashboardClosed
    /\ authUsers = FirstUsers
    /\ user_roles \in SUBSET {[user_id |-> u, role |-> role] : u \in FirstUsers, role \in app_role}
    /\ attempt = NoAttempt

NextAccess ==
    \/ \E u \in Users : SignUp(u)
    \/ \E u \in Users : DeleteUser(u)
    \/ \E session \in Sessions : ClientSelect(session)
    \/ \E session \in Sessions, id \in 1 .. MaxPatients, status \in PatientStatuses :
         ClientUpdate(session, id, status)
    \/ \E session \in Sessions, body \in DashboardReports : ClientInsert(session, body)
    \/ \E body \in DashboardReports : EdgeInsert(body)

AccessSpec == InitAccess /\ [][NextAccess]_vars
---------------------------------------------------------------------------
(* The scoring rule as the specification states it (section 4.1), written  *)
(* as tables; the claims compare the code's results with it.               *)

RefAgeBand(age) ==
    CASE age \in 70 .. 150 -> 25
      [] age \in 50 .. 69 -> 15
      [] age \in 30 .. 49 -> 5
      [] age \in 0 .. 29 -> 0

RefPainBand(pain_level) ==
    CASE pain_level = "severe" -> 25
      [] pain_level = "moderate" -> 15
      [] pain_level = "mild" -> 5

RefSeverityBand(severity_level) ==
    CASE severity_level = "critical" -> 35
      [] severity_level = "high" -> 25
      [] severity_level = "medium" -> 15
      [] severity_level = "low" -> 5

RefExistingBand(existing_disease) ==
    CASE existing_disease.kind # "string" -> 0
      [] existing_disease = JSStr(<< >>) -> 0
      [] existing_disease = JSStr(strNone) -> 0
      [] existing_disease = JSStr(strHeartDisease) -> 20
      [] existing_disease = JSStr(strDiabetes) -> 15
      [] existing_disease = JSStr(strHypertension) -> 15
      [] existing_disease = JSStr(strAsthma) -> 10
      [] OTHER -> 5

RefDurationBand(days) ==
    CASE days \in 0 .. 1 -> 10
      [] days \in 2 .. 3 -> 5
      [] days \in 4 .. 365 -> 0

\* The reference total without the existing-condition term.
RefOthers(d) ==
    RefAgeBand(d.age)
    + (IF d.chest_pain THEN 30 ELSE 0)
    + (IF d.breathlessness THEN 25 ELSE 0)
    + (IF d.fever THEN 10 ELSE 0)
    + RefPainBand(d.pain_level)
    + RefSeverityBand(d.severity_level)
    + RefDurationBand(d.symptom_duration_days)

RefTotal(d) == RefOthers(d) + RefExistingBand(d.existing_disease)

RefBucket(total) ==
    CASE total >= 75 -> "high"
      [] total >= 45 /\ total < 75 -> "medium"
      [] total < 45 -> "low"

\* low < medium < high
Rank(p) ==
    CASE p = "low" -> 0
      [] p = "medium" -> 1
      [] p = "high" -> 2
      [] OTHER -> -1

\* Request r's report has been scored: predictPriority has returned.
Scored(r) == pc[r] \in {"scored", "inserting"} \/ (pc[r] = "done" /\ priority[r] # "unset")

\* The values existing_disease takes in a validated report.
ValidDiseases == {existingDiseaseTransform(v) : v \in GridDiseases}

---------------------------------------------------------------------------
(* Claims. *)

\* C1: for every valid report, predictPriority returns the bucket (>= 75 high,
\* 45..74 medium, < 45 low) of the reference total: age band + 30/25/10 for the
\* three symptoms + pain band + severity band + existing-condition band +
\* duration band; the gender changes neither the total nor the priority.
C1_ReferenceBucket ==
    \A r \in Requests :
        Scored(r) =>
            /\ priority[r] = RefBucket(RefTotal(data[r]))
            /\ \A g \in GridGenders :
                 LET d2 == [data[r] EXCEPT !.gender = g.str]
                 IN  /\ accumulatedScore(d2) = score[r]
                     /\ predictPriority(d2) = priority[r]

\* A report with a listed condition, whose total lies in the medium bucket, has
\* been scored.
C1_Witness ==
    \E r \in Requests :
        /\ Scored(r)
        /\ data[r].existing_disease = JSStr(strDiabetes)
        /\ data[r].age = 69
        /\ priority[r] = "medium"

\* C2: totality: every validated report can be scored, and the result is one
\* of low, medium, high.
C2_Totality ==
    \A r \in Requests :
        /\ pc[r] = "validated" => ENABLED Score(r)
        /\ Scored(r) => priority[r] \in Priorities

\* A report of the lowest possible total has been scored.
C2_Witness ==
    \E r \in Requests : Scored(r) /\ score[r] = 10 /\ priority[r] = "low"

\* C3: determinism: two requests with identical validated reports get identical
\* scores and priorities, whatever the other request did before or in between.
C3_Determinism ==
    \A r1, r2 \in Requests :
        (Scored(r1) /\ Scored(r2) /\ data[r1] = data[r2]) =>
            (priority[r1] = priority[r2] /\ score[r1] = score[r2])

\* Two requests carried the same report; one was scored only after the other
\* had taken a token and stored its row.
C3_Witness ==
    \E r1, r2 \in Requests :
        /\ r1 # r2
        /\ Scored(r1) /\ Scored(r2)
        /\ data[r1] = data[r2]
        /\ pc[r1] = "done" /\ response[r1].kind = "ok"
        /\ pc[r2] = "scored"
        /\ tokenSeq = 1

\* C4: boundary exactness: a total of exactly 75 gives high, 74 medium,
\* 45 medium, 44 low.  (Every total is a multiple of 5, so 74 and 44 are
\* checked on the bucketing itself.)
C4_Boundaries ==
    /\ \A r \in Requests :
         Scored(r) =>
            /\ score[r] = 75 => priority[r] = "high"
            /\ score[r] = 74 => priority[r] = "medium"
            /\ score[r] = 45 => priority[r] = "medium"
            /\ score[r] = 44 => priority[r] = "low"
    /\ priorityOfScore(75) = "high"
    /\ priorityOfScore(74) = "medium"
    /\ priorityOfScore(45) = "medium"
    /\ priorityOfScore(44) = "low"

\* A report whose total is exactly 75 has been scored.
C4_Witness ==
    \E r \in Requests : Scored(r) /\ score[r] = 75 /\ priority[r] = "high"

\* C5: monotonicity per factor: changing one factor of a scored report to a
\* value of a higher-scoring band (by the specification's band tables) lowers
\* neither the total nor the priority.
C5_NotLower(r, d2) ==
    /\ accumulatedScore(d2) >= score[r]
    /\ Rank(predictPriority(d2)) >= Rank(priority[r])

C5_Monotone ==
    \A r \in Requests :
        Scored(r) =>
            LET d == data[r]
            IN  /\ \A a \in GridAges :
                     RefAgeBand(a) > RefAgeBand(d.age) =>
                        C5_NotLower(r, [d EXCEPT !.age = a])
                /\ ~d.chest_pain => C5_NotLower(r, [d EXCEPT !.chest_pain = TRUE])
                /\ ~d.breathlessness => C5_NotLower(r, [d EXCEPT !.breathlessness = TRUE])
                /\ ~d.fever => C5_NotLower(r, [d EXCEPT !.fever = TRUE])
                /\ \A p \in PainLevels :
                     RefPainBand(p) > RefPainBand(d.pain_level) =>
                        C5_NotLower(r, [d EXCEPT !.pain_level = p])
                /\ \A s \in SeverityLevels :
                     RefSeverityBand(s) > RefSeverityBand(d.severity_level) =>
                        C5_NotLower(r, [d EXCEPT !.severity_level = s])
                /\ \A e \in ValidDiseases :
                     RefExistingBand(e) > RefExistingBand(d.existing_disease) =>
                        C5_NotLower(r, [d EXCEPT !.existing_disease = e])
                /\ \A n \in GridDurations :
                     RefDurationBand(n) > RefDurationBand(d.symptom_duration_days) =>
                        C5_NotLower(r, [d EXCEPT !.symptom_duration_days = n])

\* A scored report of priority low that a higher pain band lifts to medium.
C5_Witness ==
    \E r \in Requests :
        /\ Scored(r)
        /\ data[r].pain_level = "mild"
        /\ priority[r] = "low"
        /\ predictPriority([data[r] EXCEPT !.pain_level = "severe"]) = "medium"

\* C6: existing-condition matching is exact and case-sensitive: "heart disease"
\* adds 5; "Heart Disease", "Diabetes", "Hypertension", "Asthma" add 20, 15, 15,
\* 10, and no other value adds more than 5.
C6_CaseSensitive ==
    \A r \in Requests :
        Scored(r) =>
            LET e == data[r].existing_disease
                added == score[r] - RefOthers(data[r])
            IN  /\ e = JSStr(strHeartDiseaseLower) => added = 5
                /\ e = JSStr(strHeartDisease) => added = 20
                /\ e = JSStr(strDiabetes) => added = 15
                /\ e = JSStr(strHypertension) => added = 15
                /\ e = JSStr(strAsthma) => added = 10
                /\ e \notin {JSStr(strHeartDisease), JSStr(strDiabetes),
                             JSStr(strHypertension), JSStr(strAsthma)} => added <= 5

\* A report with existing_disease "heart disease" has been scored.
C6_Witness ==
    \E r \in Requests : Scored(r) /\ data[r].existing_disease = JSStr(strHeartDiseaseLower)

\* C7: a report with existing_disease "None" and the same report with
\* existing_disease null (or undefined) have equal totals, the condition adding
\* 0 in both, and equal priorities.
C7_NoneIsAbsent ==
    \A r \in Requests :
        (Scored(r) /\ data[r].existing_disease \in {JSStr(strNone), JSNull}) =>
            /\ score[r] = RefOthers(data[r])
            /\ \A e \in {JSStr(strNone), JSNull, JSUndefined} :
                 LET d2 == [data[r] EXCEPT !.existing_disease = e]
                 IN  /\ accumulatedScore(d2) = score[r]
                     /\ predictPriority(d2) = priority[r]

\* A report with existing_disease "None" has been scored.
C7_Witness ==
    \E r \in Requests : Scored(r) /\ data[r].existing_disease = JSStr(strNone)

\* C8: scenario 1 totals 170 and yields high with the action "Proceed to
\* Emergency Ward immediately"; scenario 2 totals 10 and yields low with the
\* action "OPD visit can be scheduled later".
C8_Scenarios12 ==
    \A r \in Requests :
        /\ (Scored(r) /\ raw[r].body = Scenario1) =>
              /\ score[r] = 170
              /\ priority[r] = "high"
              /\ getActionMessage(priority[r]) = strActionHigh
              /\ response[r].kind = "ok" =>
                    (response[r].priority = "high" /\ response[r].action = strActionHigh)
        /\ (Scored(r) /\ raw[r].body = Scenario2) =>
              /\ score[r] = 10
              /\ priority[r] = "low"
              /\ getActionMessage(priority[r]) = strActionLow
              /\ response[r].kind = "ok" =>
                    (response[r].priority = "low" /\ response[r].action = strActionLow)

\* Both scenarios have been answered.
C8_Witness ==
    \E r1, r2 \in Requests :
        /\ raw[r1].body = Scenario1 /\ response[r1].kind = "ok"
        /\ raw[r2].body = Scenario2 /\ response[r2].kind = "ok"

\* C9: scenario 3 totals 95 and yields high; with existing_disease null
\* (scenario 4) it totals 80 and still yields high.
C9_Scenarios34 ==
    \A r \in Requests :
        /\ (Scored(r) /\ raw[r].body = Scenario3) =>
              /\ score[r] = 95
              /\ priority[r] = "high"
              /\ accumulatedScore([data[r] EXCEPT !.existing_disease = JSNull]) = 80
              /\ predictPriority([data[r] EXCEPT !.existing_disease = JSNull]) = "high"
        /\ (Scored(r) /\ raw[r].body = Scenario4) =>
              /\ score[r] = 80
              /\ priority[r] = "high"

\* Scenario 3 has been scored.
C9_Witness ==
    \E r \in Requests : Scored(r) /\ raw[r].body = Scenario3 /\ score[r] = 95

\* C10: getActionMessage is a total fixed lookup (high, medium, low to the three
\* sentences), and in every success response the action is getActionMessage of
\* the response's priority.
C10_ActionLookup ==
    /\ getActionMessage("high") = strActionHigh
    /\ getActionMessage("medium") = strActionMedium
    /\ getActionMessage("low") = strActionLow
    /\ \A r \in Requests :
         response[r].kind = "ok" =>
            /\ response[r].priority \in Priorities
            /\ response[r].action = getActionMessage(response[r].priority)
            /\ response[r].priority = "high" => response[r].action = strActionHigh
            /\ response[r].priority = "medium" => response[r].action = strActionMedium
            /\ response[r].priority = "low" => response[r].action = strActionLow

\* Two success responses of different priorities have been returned.
C10_Witness ==
    \E r1, r2 \in Requests :
        /\ response[r1].kind = "ok" /\ response[r1].priority = "high"
        /\ response[r2].kind = "ok" /\ response[r2].priority = "low"

---------------------------------------------------------------------------
(* The notification text as the specification fixes it (section 4.2): the  *)
(* template of lines 146-156 with the priority and the action filled in.   *)

\* The text before and after the token, for priority high.
RefMessageHeadHigh ==
    << "D", "e", "a", "r", " ", "P", "a", "t", "i", "e", "n", "t", ",", "\n", "\n", "Y",
       "o", "u", "r", " ", "c", "o", "n", "d", "i", "t", "i", "o", "n", " ", "h", "a", "s",
       " ", "b", "e", "e", "n", " ", "a", "s", "s", "e", "s", "s", "e", "d", " ", "a", "s",
       " ", "H", "I", "G", "H", " ", "p", "r", "i", "o", "r", "i", "t", "y", ".", "\n",
       "\n", "T", "o", "k", "e", "n", " ", "N", "u", "m", "b", "e", "r", ":", " " >>
RefMessageTailHigh ==
    << "\n", "\n", "P", "r", "o", "c", "e", "e", "d", " ", "t", "o", " ", "E", "m", "e",
       "r", "g", "e", "n", "c", "y", " ", "W", "a", "r", "d", " ", "i", "m", "m", "e", "d",
       "i", "a", "t", "e", "l", "y", ".", "\n", "\n", "T", "h", "a", "n", "k", " ", "y",
       "o", "u", " ", "f", "o", "r", " ", "u", "s", "i", "n", "g", " ", "H", "e", "a", "l",
       "N", "a", "v", ".", "\n", "\n", EnDash, " ", "H", "e", "a", "l", "N", "a", "v", " ",
       "-", " ", "S", "m", "a", "r", "t", " ", "C", "a", "r", "e", " ", "P", "a", "t", "i",
       "e", "n", "t", " ", "P", "r", "i", "o", "r", "i", "t", "y", " ", "S", "y", "s", "t",
       "e", "m" >>
\* The text before and after the token, for priority medium.
RefMessageHeadMedium ==
    << "D", "e", "a", "r", " ", "P", "a", "t", "i", "e", "n", "t", ",", "\n", "\n", "Y",
       "o", "u", "r", " ", "c", "o", "n", "d", "i", "t", "i", "o", "n", " ", "h", "a", "s",
       " ", "b", "e", "e", "n", " ", "a", "s", "s", "e", "s", "s", "e", "d", " ", "a", "s",
       " ", "M", "E", "D", "I", "U", "M", " ", "p", "r", "i", "o", "r", "i", "t", "y", ".",
       "\n", "\n", "T", "o", "k", "e", "n", " ", "N", "u", "m", "b", "e", "r", ":", " " >>
RefMessageTailMedium ==
    << "\n", "\n", "C", "o", "n", "s", "u", "l", "t", " ", "a", " ", "d", "o", "c", "t",
       "o", "r", " ", "t", "o", "d", "a", "y", ".", "\n", "\n", "T", "h", "a", "n", "k",
       " ", "y", "o", "u", " ", "f", "o", "r", " ", "u", "s", "i", "n", "g", " ", "H", "e",
       "a", "l", "N", "a", "v", ".", "\n", "\n", EnDash, " ", "H", "e", "a", "l", "N", "a",
       "v", " ", "-", " ", "S", "m", "a", "r", "t", " ", "C", "a", "r", "e", " ", "P", "a",
       "t", "i", "e", "n", "t", " ", "P", "r", "i", "o", "r", "i", "t", "y", " ", "S", "y",
       "s", "t", "e", "m" >>
\* The text before and after the token, for priority low.
RefMessageHeadLow ==
    << "D", "e", "a", "r", " ", "P", "a", "t", "i", "e", "n", "t", ",", "\n", "\n", "Y",
       "o", "u", "r", " ", "c", "o", "n", "d", "i", "t", "i", "o", "n", " ", "h", "a", "s",
       " ", "b", "e", "e", "n", " ", "a", "s", "s", "e", "s", "s", "e", "d", " ", "a", "s",
       " ", "L", "O", "W", " ", "p", "r", "i", "o", "r", "i", "t", "y", ".", "\n", "\n",
       "T", "o", "k", "e", "n", " ", "N", "u", "m", "b", "e", "r", ":", " " >>
RefMessageTailLow ==
    << "\n", "\n", "O", "P", "D", " ", "v", "i", "s", "i", "t", " ", "c", "a", "n", " ",
       "b", "e", " ", "s", "c", "h", "e", "d", "u", "l", "e", "d", " ", "l", "a", "t", "e",
       "r", ".", "\n", "\n", "T", "h", "a", "n", "k", " ", "y", "o", "u", " ", "f", "o",
       "r", " ", "u", "s", "i", "n", "g", " ", "H", "e", "a", "l", "N", "a", "v", ".",
       "\n", "\n", EnDash, " ", "H", "e", "a", "l", "N", "a", "v", " ", "-", " ", "S", "m",
       "a", "r", "t", " ", "C", "a", "r", "e", " ", "P", "a", "t", "i", "e", "n", "t", " ",
       "P", "r", "i", "o", "r", "i", "t", "y", " ", "S", "y", "s", "t", "e", "m" >>
strT0042 ==
    << "T", "-", "0", "0", "4", "2" >>

RefMessage(p, t) ==
    CASE p = "high" -> RefMessageHeadHigh \o t \o RefMessageTailHigh
      [] p = "medium" -> RefMessageHeadMedium \o t \o RefMessageTailMedium
      [] p = "low" -> RefMessageHeadLow \o t \o RefMessageTailLow

strTokenLabel ==
    << "T", "o", "k", "e", "n", " ", "N", "u", "m", "b", "e", "r", ":", " " >>

\* Text t stands in text m right after the label "Token Number: ".
EmbedsToken(m, t) ==
    \E k \in Len(strTokenLabel) + 1 .. Len(m) - Len(t) + 1 :
        /\ SubSeq(m, k - Len(strTokenLabel), k - 1) = strTokenLabel
        /\ SubSeq(m, k, k + Len(t) - 1) = t

\* The rows of the patients table.
Rows == {patients[i] : i \in 1 .. Len(patients)}

\* The token the generator returned to request r, if any.
GrantedTo(r) == {TokenOf(n) : n \in {k \in 1 .. Len(granted) : granted[k] = r}}

\* C11: getNotificationMessage(p, t) is the fixed template (greeting, the
\* upper-case priority, "Token Number: " and the token unmodified, the action
\* sentence with a full stop, the thanks, the signature line, one blank line
\* between them); for low and "T-0042" it carries "LOW", "T-0042" and "OPD visit
\* can be scheduled later".
C11_Template ==
    /\ \A p \in Priorities :
         \A t \in {strT0042, TokenOf(1), << >>} :
            getNotificationMessage(p, t) = RefMessage(p, t)
    /\ getNotificationMessage("low", strT0042)
         = RefMessageHeadLow \o strT0042 \o RefMessageTailLow
    /\ \A r \in Requests :
         response[r].kind = "ok" =>
            response[r].message = RefMessage(response[r].priority, response[r].token_number)

\* A low-priority and a high-priority notification have been sent.
C11_Witness ==
    \E r1, r2 \in Requests :
        /\ response[r1].kind = "ok" /\ response[r1].priority = "low"
        /\ response[r1].message = RefMessageHeadLow \o token[r1] \o RefMessageTailLow
        /\ response[r2].kind = "ok" /\ response[r2].priority = "high"
        /\ Len(response[r2].message) > Len(token[r2])

\* C12 as stated: token pass-through: in every status 200 response the
\* token_number field, the token in the message and the token_number of the
\* stored row are the string the generator returned to that request.
C12_AsStated ==
    \A r \in Requests :
        response[r].status = 200 =>
            /\ Cardinality(GrantedTo(r)) = 1
            /\ \A t \in GrantedTo(r) :
                 /\ response[r].token_number = t
                 /\ EmbedsToken(response[r].message, t)
                 /\ \E row \in Rows :
                      row.id = response[r].patient_id /\ row.token_number = t

\* C12, amended: the same for every status 200 response to a request that is
\* not a CORS preflight; the reply to an OPTIONS request is status 200 with no
\* body, and no token is requested for it.
C12_TokenPassThrough ==
    \A r \in Requests :
        /\ (response[r].status = 200 /\ raw[r].method # "OPTIONS") =>
              /\ response[r].kind = "ok"
              /\ Cardinality(GrantedTo(r)) = 1
              /\ \A t \in GrantedTo(r) :
                   /\ response[r].token_number = t
                   /\ EmbedsToken(response[r].message, t)
                   /\ \E row \in Rows :
                        row.id = response[r].patient_id /\ row.token_number = t
        /\ (response[r].status = 200 /\ raw[r].method = "OPTIONS") =>
              (response[r] = preflightResponse /\ GrantedTo(r) = {})

\* The request that got the generator's second token has been answered.
C12_Witness ==
    \E r \in Requests :
        /\ response[r].kind = "ok"
        /\ Len(granted) = 2 /\ granted[2] = r
        /\ response[r].token_number = TokenOf(2)

\* The request's input is malformed: its body is not JSON, or the schema
\* rejects it.  (A CORS preflight carries no input.)
Malformed(req) ==
    req.method # "OPTIONS" /\ (~req.wellFormed \/ ~schemaAccepts(req.body))

\* The schema was applied to the request's body and rejected it.
SchemaRejected(req) ==
    req.method # "OPTIONS" /\ req.wellFormed /\ ~schemaAccepts(req.body)

\* Nothing after validation happened for request r: the scorer was not
\* invoked, no token was granted, no row carries a token of r.
NothingAfterValidation(r) ==
    /\ priority[r] = "unset"
    /\ score[r] = 0
    /\ token[r] = << >>
    /\ GrantedTo(r) = {}
    /\ \A n \in 1 .. Len(granted) : granted[n] # r

\* The literal messages of the error responses (lines 54, 65, 70, 75, 82, 178).
GenericMessages ==
    { "Invalid input data provided. Please check your submission.",
      "A record with this information already exists",
      "Referenced record not found",
      "Unable to save patient information. Please try again.",
      "An error occurred while processing your request",
      "Invalid input data. Please check your submission and try again." }

\* C13: every request with malformed input is answered with status 400 and a
\* generic message, and for it the scorer is not invoked, no token is requested
\* and no record is stored.
C13_MalformedRejected ==
    \A r \in Requests :
        (pc[r] = "done" /\ Malformed(raw[r])) =>
            /\ response[r].kind = "error"
            /\ response[r].status = 400
            /\ response[r].error \in GenericMessages
            /\ NothingAfterValidation(r)

\* The part of C13 the code keeps: a JSON body the schema rejects is answered
\* with status 400 and the message of line 178, and nothing later happens.
C13_SchemaRejected ==
    \A r \in Requests :
        (pc[r] = "done" /\ SchemaRejected(raw[r])) =>
            /\ response[r] = validationResponse
            /\ response[r].status = 400
            /\ NothingAfterValidation(r)

\* C14: error redaction: every error response holds nothing but an error
\* field, whose value is one of the fixed generic messages, whatever was
\* thrown; every failure path ends in such a response.
C14_Redaction ==
    \A r \in Requests :
        /\ response[r].kind = "error" =>
              /\ DOMAIN response[r] = {"kind", "status", "error"}
              /\ response[r].error \in GenericMessages
              /\ caught[r].code # "" => response[r].error # caught[r].code
        /\ caught[r] # NoError => response[r].kind = "error"
        /\ (pc[r] = "done" /\ Malformed(raw[r])) => response[r].kind = "error"

\* A database error with a code and a rejected body have both been answered.
C14_Witness ==
    \E r1, r2 \in Requests :
        /\ caught[r1] = PgError("XX000") /\ response[r1].kind = "error"
        /\ SchemaRejected(raw[r2]) /\ response[r2].kind = "error"

\* C15: a unique violation (code 23505) is answered with "A record with this
\* information already exists"; a failure that is neither a validation error nor
\* a named database error is answered with a generic message and status 500.
C15_Classification ==
    \A r \in Requests :
        /\ caught[r] = PgError("23505") =>
              response[r].error = "A record with this information already exists"
        /\ (\/ caught[r].kind = "other"
            \/ caught[r].kind = "pg" /\ caught[r].code \notin {"23505", "23503"}) =>
              /\ response[r].status = 500
              /\ response[r].error \in
                    { "Unable to save patient information. Please try again.",
                      "An error occurred while processing your request" }

\* A unique violation on insert and a body that is not JSON have been answered.
C15_Witness ==
    \E r1, r2 \in Requests :
        /\ caught[r1] = PgError("23505") /\ token[r1] # << >> /\ pc[r1] = "done"
        /\ caught[r2] = OtherError /\ pc[r2] = "done"

\* C16: independence under concurrency: whatever the interleaving, the
\* priority, the action and the message of a success response are those of the
\* request's own report and own token; two requests with equal bodies get the
\* same priority and action, and messages that differ in the token only.
C16_Independence ==
    \A r \in Requests :
        response[r].kind = "ok" =>
            LET own == RefBucket(RefTotal(schemaData(raw[r].body)))
            IN  /\ response[r].priority = own
                /\ response[r].action = getActionMessage(own)
                /\ \A t \in GrantedTo(r) : response[r].message = RefMessage(own, t)
                /\ \A q \in Requests :
                     (response[q].kind = "ok" /\ raw[q].body = raw[r].body) =>
                        /\ response[q].priority = response[r].priority
                        /\ response[q].action = response[r].action
                        /\ Len(response[q].message) = Len(response[r].message)

\* Two requests with different reports overlapped: the one that took the first
\* token stored its row second, and both were answered, with different
\* priorities.
C16_Witness ==
    \E r1, r2 \in Requests :
        /\ response[r1].kind = "ok" /\ response[r2].kind = "ok"
        /\ response[r1].priority = "high" /\ response[r2].priority = "low"
        /\ granted = << r1, r2 >>
        /\ Len(patients) = 2
        /\ patients[1].token_number = token[r2]

\* C17: token uniqueness: no two stored rows and no two success responses
\* carry the same token_number; a request is granted at most one token, and the
\* token it uses is the one granted to it.
C17_TokenUnique ==
    /\ \A i, j \in 1 .. Len(patients) :
         i # j => patients[i].token_number # patients[j].token_number
    /\ \A r1, r2 \in Requests :
         (r1 # r2 /\ response[r1].kind = "ok" /\ response[r2].kind = "ok") =>
            response[r1].token_number # response[r2].token_number
    /\ \A r \in Requests :
         /\ Cardinality({n \in 1 .. Len(granted) : granted[n] = r}) <= 1
         /\ token[r] # << >> => token[r] \in GrantedTo(r)
    /\ Len(granted) = tokenSeq

\* Two requests have both stored a row and been answered.
C17_Witness ==
    \E r1, r2 \in Requests :
        /\ r1 # r2
        /\ response[r1].kind = "ok" /\ response[r2].kind = "ok"
        /\ Len(patients) = 2

\* The rows request r stored: those that carry the token granted to r.
RowsOf(r) == {row \in Rows : row.token_number \in GrantedTo(r)}

\* Everything the handler invocation r has written.
Footprint(r) ==
    << data[r], score[r], priority[r], token[r], response[r], caught[r], RowsOf(r),
       GrantedTo(r) >>

\* The order of the steps up to the insert: the report was scored only if the
\* body had passed validation; a token was granted only to a scored request; a
\* row was stored only with a granted token; and a request that failed at a step
\* has an error response and shows none of the later steps.
C18_Order ==
    \A r \in Requests :
        /\ priority[r] # "unset" =>
              /\ raw[r].method # "OPTIONS" /\ raw[r].wellFormed
              /\ schemaAccepts(raw[r].body)
              /\ data[r] = schemaData(raw[r].body)
        /\ GrantedTo(r) # {} => (priority[r] # "unset" /\ token[r] \in GrantedTo(r))
        /\ token[r] # << >> => GrantedTo(r) # {}
        /\ RowsOf(r) # {} => (token[r] # << >> /\ caught[r] = NoError)
        /\ pc[r] \in {"idle", "received", "validated"} => GrantedTo(r) = {}
        /\ pc[r] \in {"idle", "received", "validated", "scored", "inserting"} =>
              (RowsOf(r) = {} /\ response[r] = NoResponse)
        /\ response[r].kind = "error" =>
              /\ pc[r] = "done"
              /\ RowsOf(r) = {}
              /\ Malformed(raw[r]) => NothingAfterValidation(r)
              /\ (caught[r].kind = "pg" /\ token[r] = << >>) =>
                    (priority[r] # "unset" /\ GrantedTo(r) = {})
              /\ (caught[r].kind = "pg" /\ token[r] # << >>) => GrantedTo(r) # {}

\* A request that has been answered does nothing more.
C18_Final ==
    \A r \in Requests :
        pc[r] = "done" => (pc'[r] = "done" /\ Footprint(r)' = Footprint(r))

\* C18 as stated: step ordering within one request, and a status 200 response
\* is sent only after the insert succeeded.
C18_AsStated ==
    /\ C18_Order
    /\ \A r \in Requests :
         response[r].status = 200 =>
            \E row \in RowsOf(r) : row.id = response[r].patient_id

\* C18, amended: step ordering within one request that is not a CORS
\* preflight: its status 200 response is sent only after its insert succeeded,
\* and an answered request does nothing more.  An OPTIONS request is answered
\* with status 200 at once, before any of the steps.
C18_StepOrder ==
    /\ [] C18_Order
    /\ [] (\A r \in Requests :
             /\ (response[r].status = 200 /\ raw[r].method # "OPTIONS") =>
                   \E row \in RowsOf(r) : row.id = response[r].patient_id
             /\ (response[r].status = 200 /\ raw[r].method = "OPTIONS") =>
                   (response[r] = preflightResponse /\ NothingAfterValidation(r)))
    /\ [][C18_Final]_vars

\* One request failed at the token step and another at the insert step.
C18_Witness ==
    \E r1, r2 \in Requests :
        /\ response[r1].kind = "error" /\ caught[r1].kind = "pg" /\ token[r1] = << >>
        /\ response[r2].kind = "error" /\ caught[r2].kind = "pg" /\ token[r2] # << >>

\* The stored row of request r agrees with its response and its validated
\* input.
RowAgrees(r, row) ==
    /\ row.id = response[r].patient_id
    /\ row.ai_priority = response[r].priority
    /\ row.token_number = response[r].token_number
    /\ row.status = "waiting"
    /\ data[r] = schemaData(raw[r].body)
    /\ row.age = data[r].age
    /\ row.gender = data[r].gender
    /\ row.chest_pain = data[r].chest_pain
    /\ row.breathlessness = data[r].breathlessness
    /\ row.fever = data[r].fever
    /\ row.pain_level = data[r].pain_level
    /\ row.symptom_duration_days = data[r].symptom_duration_days
    /\ row.self_reported_severity = data[r].severity_level
    /\ row.existing_disease = data[r].existing_disease

\* C19 as stated: a request returns status 200 if and only if a record was
\* stored for it, and that record agrees with the response and the validated
\* input; a request answered with an error has stored no record.
C19_AsStated ==
    \A r \in Requests :
        pc[r] = "done" =>
            /\ response[r].status = 200 <=> RowsOf(r) # {}
            /\ response[r].status = 200 =>
                  (Cardinality(RowsOf(r)) = 1 /\ \A row \in RowsOf(r) : RowAgrees(r, row))
            /\ response[r].kind = "error" => RowsOf(r) = {}

\* C19, amended: the same for every request that is not a CORS preflight; an
\* OPTIONS request is answered with status 200 and no body, and stores nothing.
C19_Agreement ==
    \A r \in Requests :
        /\ RowsOf(r) # {} => pc[r] = "done"
        /\ (pc[r] = "done" /\ raw[r].method # "OPTIONS") =>
              /\ response[r].status = 200 <=> RowsOf(r) # {}
              /\ response[r].status = 200 =>
                    /\ response[r].kind = "ok"
                    /\ Cardinality(RowsOf(r)) = 1
                    /\ \A row \in RowsOf(r) : RowAgrees(r, row)
              /\ response[r].kind = "error" => RowsOf(r) = {}
        /\ (pc[r] = "done" /\ raw[r].method = "OPTIONS") =>
              (response[r] = preflightResponse /\ RowsOf(r) = {})

\* A report was stored and answered with 200, another request's insert failed
\* after its token was granted.
C19_Witness ==
    \E r1, r2 \in Requests :
        /\ response[r1].kind = "ok" /\ Cardinality(RowsOf(r1)) = 1
        /\ response[r2].kind = "error" /\ token[r2] # << >> /\ RowsOf(r2) = {}

\* The text s without its leading and trailing white space: the part of s
\* between its first and its last character that is not white space.
RefTrim(s) ==
    LET inner == {i \in 1 .. Len(s) : s[i] \notin WhiteSpace}
    IN  IF inner = {} THEN << >>
        ELSE LET first == CHOOSE i \in inner : \A j \in inner : i <= j
                 last == CHOOSE i \in inner : \A j \in inner : j <= i
             IN  [k \in 1 .. last - first + 1 |-> s[first + k - 1]]

\* C20: validation trims existing_disease and turns an empty or white-space-only
\* value into null: such a report scores as one without a condition (+0), and a
\* padded value scores as its trimmed value.
C20_Normalised ==
    \A r \in Requests :
        (Scored(r) /\ raw[r].body.existing_disease.kind = "string") =>
            LET t == RefTrim(raw[r].body.existing_disease.str)
                e == IF t = << >> THEN JSNull ELSE JSStr(t)
                same == schemaData([raw[r].body EXCEPT !.existing_disease = e])
            IN  /\ data[r].existing_disease = e
                /\ t = << >> => score[r] = RefOthers(data[r])
                /\ score[r] = RefOthers(data[r]) + RefExistingBand(e)
                /\ score[r] = accumulatedScore(same)
                /\ priority[r] = predictPriority(same)

\* A report with a padded listed condition has been scored as the condition.
C20_Witness ==
    \E r \in Requests :
        /\ Scored(r)
        /\ raw[r].body.existing_disease = JSStr(strAsthmaPadded)
        /\ data[r].existing_disease = JSStr(strAsthma)
        /\ score[r] = RefOthers(data[r]) + 10

---------------------------------------------------------------------------
(* Banding and range of the total. *)

\* Every age and every duration of the schema falls in exactly one band of the
\* table, and the code adds that band's points.
C21_EveryValue ==
    /\ \A a \in MinAge .. MaxAge :
         /\ Cardinality({band \in {70 .. 150, 50 .. 69, 30 .. 49, 0 .. 29} : a \in band}) = 1
         /\ ageFactor(a) = RefAgeBand(a)
         /\ ageFactor(a) \in {0, 5, 15, 25}
    /\ \A days \in MinDuration .. MaxDuration :
         /\ Cardinality({band \in {0 .. 1, 2 .. 3, 4 .. 365} : days \in band}) = 1
         /\ durationFactor(days) = RefDurationBand(days)
         /\ durationFactor(days) \in {0, 5, 10}

\* C21: first-match banding: exactly one age band applies (70..150 -> +25,
\* 50..69 -> +15, 30..49 -> +5, 0..29 -> +0, never stacked) and exactly one
\* duration band (0 or 1 day -> +10, 2 or 3 days -> +5, 4..365 days -> +0): what
\* age and duration add to a scored report's total is the sum of the two bands.
C21_FirstMatch ==
    /\ C21_EveryValue
    /\ \A r \in Requests :
         Scored(r) =>
            LET base == [data[r] EXCEPT !.age = MinAge, !.symptom_duration_days = MaxDuration]
            IN  score[r] - accumulatedScore(base)
                  = RefAgeBand(data[r].age) + RefDurationBand(data[r].symptom_duration_days)

\* A report at the lower end of the highest age band and at the upper end of
\* the middle duration band has been scored.
C21_Witness ==
    \E r \in Requests :
        /\ Scored(r)
        /\ data[r].age = 70
        /\ data[r].symptom_duration_days = 3
        /\ score[r] = RefOthers([data[r] EXCEPT !.age = 0, !.symptom_duration_days = 365])
                        + RefExistingBand(data[r].existing_disease) + 30

\* One report for each tier.
TierExamples ==
    { Scenario1, Scenario2, [Scenario2 EXCEPT !.age = 55, !.pain_level = "severe"] }

C22_TiersReachable ==
    \A p \in Priorities :
        \E b \in TierExamples : schemaAccepts(b) /\ predictPriority(schemaData(b)) = p

\* C22 as stated: the total of every valid report is a multiple of 5 between 10
\* and 170, never 74 or 44, and all three tiers are reachable.
C22_AsStated ==
    /\ C22_TiersReachable
    /\ \A r \in Requests :
         Scored(r) =>
            /\ score[r] % 5 = 0
            /\ 10 <= score[r] /\ score[r] <= 170
            /\ score[r] \notin {74, 44}

\* C22: score range: the total of every valid report is a multiple of 5 between
\* 10 and 180 (25 + 30 + 25 + 10 + 25 + 35 + 20 + 10), pain and severity each
\* adding at least 5; totals of 74 or 44 are never produced, and all three tiers
\* are reachable.
C22_Range ==
    /\ C22_TiersReachable
    /\ \A r \in Requests :
         Scored(r) =>
            /\ score[r] % 5 = 0
            /\ 10 <= score[r] /\ score[r] <= 180
            /\ score[r] \notin {74, 44}
            /\ painFactor(data[r].pain_level) >= 5
            /\ severityFactor(data[r].severity_level) >= 5

\* A report in the highest band of every factor, fever included, has been
\* scored: its total is 180.
C22_Witness ==
    \E r \in Requests :
        /\ Scored(r)
        /\ data[r].fever /\ data[r].chest_pain /\ data[r].breathlessness
        /\ score[r] = 180
        /\ priority[r] = "high"

---------------------------------------------------------------------------
(* The dashboard's list. *)

\* The queue's order of priorities: high first; a row without a priority
\* counts as low.
QueueRank(p) ==
    CASE p = "high" -> 0
      [] p = "medium" -> 1
      [] p = "low" -> 2
      [] p = NullPriority -> 2

\* Row a may stand before row b in the queue.
InQueueOrder(a, b) ==
    \/ QueueRank(a.ai_priority) < QueueRank(b.ai_priority)
    \/ /\ QueueRank(a.ai_priority) = QueueRank(b.ai_priority)
       /\ a.created_at >= b.created_at

\* C23: dashboard queue ordering: after any sequence of fetchPatients
\* completions and realtime INSERT and UPDATE events, the list is sorted by
\* priority (high, medium, low; no priority counts as low) and, within equal
\* priority, by created_at descending.
C23_Sorted ==
    \A i, j \in 1 .. Len(dashboardPatients) :
        i < j => InQueueOrder(dashboardPatients[i], dashboardPatients[j])

\* What does hold in every state: the list is sorted by priority and, within
\* equal priority, by the millisecond of created_at.
C23_SortedToMillisecond ==
    \A i, j \in 1 .. Len(dashboardPatients) :
        i < j =>
            LET a == dashboardPatients[i]
                b == dashboardPatients[j]
            IN  \/ QueueRank(a.ai_priority) < QueueRank(b.ai_priority)
                \/ /\ QueueRank(a.ai_priority) = QueueRank(b.ai_priority)
                   /\ a.created_at \div 1000 >= b.created_at \div 1000

\* The places of the list that show the patient of this id.
Listed(id) == {i \in 1 .. Len(dashboardPatients) : dashboardPatients[i].id = id}

\* Nothing is pending: the channel is empty, and every fetchPatients that was
\* called has returned with an answer, the initial load among them.
Settled ==
    /\ channel = << >>
    /\ fetches[1].stage = "done"
    /\ \A f \in Fetches : fetches[f].stage \in {"idle", "done"} /\ ~fetches[f].error

C24_NoDuplicate ==
    \A id \in 1 .. Len(patients) : Cardinality(Listed(id)) <= 1

C24_Complete ==
    Settled => \A id \in 1 .. Len(patients) : Cardinality(Listed(id)) = 1

\* C24: dashboard list consistency: whatever the interleaving of a patient's
\* insert, the delivery of its INSERT event, and the start and completion of
\* fetchPatients, the list never shows a patient id twice, and once all pending
\* fetches and events have been delivered it shows every stored patient exactly
\* once.
C24_Consistency ==
    /\ C24_NoDuplicate
    /\ C24_Complete

---------------------------------------------------------------------------
(* Access to the patients table. *)

\* user_roles holds the role medical_staff or admin for this user.
StaffOrAdmin(uid) ==
    \E row \in user_roles : row.user_id = uid /\ row.role \in {"medical_staff", "admin"}

\* C25: patient-record access control: in every state of user_roles, a client
\* can SELECT or UPDATE rows of patients only as an authenticated user for whom
\* user_roles holds medical_staff or admin, and no client role can INSERT into
\* patients: every statement that was let through obeys this, and rows are
\* added by the service role only.
C25_AccessControl ==
    /\ \A dbRole \in ClientRoles, uid \in Users \cup {NoUid} :
         /\ \A command \in {"SELECT", "UPDATE"} :
              permits(dbRole, uid, command) => (dbRole = "authenticated" /\ StaffOrAdmin(uid))
         /\ ~permits(dbRole, uid, "INSERT")
    /\ \A policy \in patientsPolicies : policy.command # "INSERT" /\ policy.command # "ALL"
    /\ (attempt.allowed /\ attempt.dbRole \in ClientRoles) =>
         /\ attempt.command \in {"SELECT", "UPDATE"}
         /\ attempt.dbRole = "authenticated"
         /\ attempt.roles \cap {"medical_staff", "admin"} # {}
    /\ (attempt.command = "INSERT" /\ attempt.allowed) => attempt.dbRole = ServiceRole

\* A member of the medical staff, who may select and update, has tried to
\* insert a row directly and was refused, while an account holding only the
\* role user is refused the select.
C25_Witness ==
    /\ attempt.command = "INSERT"
    /\ attempt.dbRole = "authenticated"
    /\ "medical_staff" \in attempt.roles
    /\ ~attempt.allowed
    /\ permits("authenticated", attempt.uid, "SELECT")
    /\ permits("authenticated", attempt.uid, "UPDATE")
    /\ \E u \in authUsers : RolesOf(u) = {"user"} /\ ~permits("authenticated", u, "SELECT")
    /\ Len(patients) > 0

=============================================================================
